---------------------------- MODULE Spec2Model ----------------------------
(***************************************************************************)
(* A model of the Excel processor component (ExcelProcessor.jsx): the row  *)
(* scan of processWorkbook with its parse context, the helpers             *)
(* normalizeStatus, findNextNonEmptyCell and getItemObject, and the upload *)
(* handler handleFileUpload with the component state data / fileName.      *)
(*                                                                         *)
(* JavaScript values are modelled as records [t, s]: t is the type tag     *)
(* ("undefined", "null", "string", "number") and s the text of a string or *)
(* the decimal text of a number, as a sequence of one-character strings,   *)
(* so that includes(), RegExp.test(), replaceAll() and template-literal    *)
(* coercion are computed character by character.  Array indices are the    *)
(* 0-based indices of the source.                                          *)
(***************************************************************************)
EXTENDS Integers, Sequences, FiniteSets

VARIABLES
    sheetNo,      \* processWorkbook: number of sheets the outer forEach has begun
    sheetData,    \* processWorkbook: the current sheet as an array of rows
    index,        \* processWorkbook: index of the next row of the inner forEach
    rowsRead,     \* number of rows of the sheets begun so far (bounds the input)
    context,      \* processWorkbook: the parse context
    output,       \* processWorkbook: the records pushed so far
    carried,      \* the context as it was when the current sheet began
    pc,           \* processWorkbook: "scan", "done" (setData called), "failed" (threw)
    data,         \* component state useState([])
    fileName,     \* component state useState("")
    uploads,      \* handleFileUpload: the upload attempts, in order of their start
    status,       \* normalizeStatus: its argument
    normalized    \* normalizeStatus: its result, once it has run

vars == <<sheetNo, sheetData, index, rowsRead, context, output, carried, pc,
          data, fileName, uploads, status, normalized>>

scanVars == <<sheetNo, sheetData, index, rowsRead, context, output, carried, pc>>

(***************************************************************************)
(* Bounds of the model.                                                    *)
(***************************************************************************)
\* rows of one workbook, over all its sheets
MaxRows == 4
\* sheets of one workbook
MaxSheets == 2
\* characters of a raw status string given to normalizeStatus
MaxStatusLen == 5
\* upload attempts of one session
MaxUploads == 3

(***************************************************************************)
(* JavaScript values.                                                      *)
(***************************************************************************)
Undefined == [t |-> "undefined", s |-> <<>>]

Null == [t |-> "null", s |-> <<>>]

Str(chars) == [t |-> "string", s |-> chars]

Num(chars) == [t |-> "number", s |-> chars]

NaN == [t |-> "number", s |-> <<"N", "a", "N">>]

\* ToBoolean: undefined, null, "", 0 and NaN are falsy
Truthy(v) ==
    CASE v.t = "undefined" -> FALSE
      [] v.t = "null" -> FALSE
      [] v.t = "string" -> v.s # <<>>
      [] v.t = "number" -> v.s # <<"0">> /\ v # NaN

\* ToString, as applied by RegExp.test() and by template literals
ToString(v) ==
    CASE v.t = "undefined" -> <<"u", "n", "d", "e", "f", "i", "n", "e", "d">>
      [] v.t = "null" -> <<"n", "u", "l", "l">>
      [] OTHER -> v.s

Digits == {"0", "1", "2", "3", "4", "5", "6", "7", "8", "9"}

IsDigit(ch) == ch \in Digits

Min(S) == CHOOSE x \in S : \A y \in S : x <= y

\* array[i] for a 0-based i: undefined outside the array
At(array, i) == IF i \in 0 .. (Len(array) - 1) THEN array[i + 1] ELSE Undefined

\* Array.prototype.findIndex, given the indices whose cell passes the test
FindIndex(hits) == IF hits = {} THEN -1 ELSE Min(hits)

\* array.findIndex((cell) => cell === v)
IndexOf(array, v) == FindIndex({i \in 0 .. (Len(array) - 1) : array[i + 1] = v})

\* String.prototype.includes
Includes(str, sub) ==
    \E i \in 1 .. (Len(str) - Len(sub) + 1) : SubSeq(str, i, i + Len(sub) - 1) = sub

\* String.prototype.replaceAll(ch, "") for a one-character pattern
ReplaceAll(str, ch) == SelectSeq(str, LAMBDA c : c # ch)

\* Number(v) for the values a cell can hold: a decimal literal converts to the
\* number of that text, any other non-empty string to NaN
IsDecimal(str) ==
    /\ \E i \in 1 .. Len(str) : IsDigit(str[i])
    /\ \A i \in 1 .. Len(str) : IsDigit(str[i]) \/ str[i] = "."
    /\ Cardinality({i \in 1 .. Len(str) : str[i] = "."}) <= 1

Number(v) ==
    CASE v.t = "number" -> v
      [] v.t = "undefined" -> NaN
      [] v.t = "null" -> Num(<<"0">>)
      [] v.t = "string" ->
            IF v.s = <<>> THEN Num(<<"0">>)
            ELSE IF IsDecimal(v.s) THEN Num(v.s) ELSE NaN

(***************************************************************************)
(* Constants and regular expressions of the source.                        *)
(***************************************************************************)
redwood == <<"r", "e", "d", "w", "o", "o", "d">>

whitewood == <<"w", "h", "i", "t", "e", "w", "o", "o", "d">>

WOOD_TYPES == {redwood, whitewood}

\* ID_PREFIXES[key]: a property lookup, undefined for any other key
ID_PREFIXES(key) ==
    IF key.t = "string" /\ key.s = redwood THEN Str(<<"R", "1">>)
    ELSE IF key.t = "string" /\ key.s = whitewood THEN Str(<<"W", "1">>)
    ELSE Undefined

\* new RegExp(`(.+)wood`).test(cell): unanchored, at least one character
\* before "wood"
WoodRegExp(v) ==
    LET str == ToString(v)
    IN  \E i \in 2 .. (Len(str) - 3) : SubSeq(str, i, i + 3) = <<"w", "o", "o", "d">>

\* new RegExp(`[0-9]{8}\\.[0-9]`).test(packId): unanchored
PackIdRegExp(v) ==
    LET str == ToString(v)
    IN  \E i \in 1 .. (Len(str) - 9) :
            /\ \A k \in i .. (i + 7) : IsDigit(str[k])
            /\ str[i + 8] = "."
            /\ IsDigit(str[i + 9])

\* new RegExp(/[0-9]+\*[0-9]+/).test(width): unanchored
WidthRegExp(v) ==
    LET str == ToString(v)
    IN  \E i \in 1 .. (Len(str) - 2) :
            IsDigit(str[i]) /\ str[i + 1] = "*" /\ IsDigit(str[i + 2])

(***************************************************************************)
(* Utility functions.  A call that can throw returns [threw, value].       *)
(***************************************************************************)
Return(v) == [threw |-> FALSE, value |-> v]

Throw == [threw |-> TRUE, value |-> Undefined]

\* normalizeStatus with the "IV" rule tried before the "S/F" rule
normalizeStatusIVFirst(s) ==
    IF s.t # "string" THEN Throw
    ELSE IF Includes(s.s, <<"I", "V">>) THEN Return(Str(<<"I", "V">>))
    ELSE IF Includes(s.s, <<"S", "/", "F">>) THEN Return(Str(<<"S", "F">>))
    ELSE IF s = Str(<<"V">>) THEN Return(Str(<<"V">>))
    ELSE Return(s)

\* status.includes is a TypeError unless status is a string
normalizeStatus(s) ==
    IF s.t # "string" THEN Throw
    ELSE IF Includes(s.s, <<"S", "/", "F">>) THEN Return(Str(<<"S", "F">>))
    ELSE IF Includes(s.s, <<"I", "V">>) THEN Return(Str(<<"I", "V">>))
    ELSE IF s = Str(<<"V">>) THEN Return(Str(<<"V">>))
    ELSE Return(s)

\* findNextNonEmptyCell with the loop started at index instead of index + 1
findNextNonEmptyCellFromIndex(array, i) ==
    LET found == {k \in i .. (Len(array) - 1) : k >= 0 /\ Truthy(array[k + 1])}
    IN  IF found = {} THEN Null ELSE array[Min(found) + 1]

findNextNonEmptyCell(array, i) ==
    LET found == {k \in (i + 1) .. (Len(array) - 1) : k >= 0 /\ Truthy(array[k + 1])}
    IN  IF found = {} THEN Null ELSE array[Min(found) + 1]

(***************************************************************************)
(* The parse context of processWorkbook.  A field that holds null or an    *)
(* array (dimensions) or null or an index (packIndex) carries an isNull    *)
(* flag.                                                                   *)
(***************************************************************************)
NullArray == [isNull |-> TRUE, cells |-> <<>>]

Array(cells) == [isNull |-> FALSE, cells |-> cells]

NullIndex == [isNull |-> TRUE, n |-> 0]

Index(n) == [isNull |-> FALSE, n |-> n]

\* row[i] where i is null or a number: row[null] is the property "null"
Cell(row, i) == IF i.isNull THEN Undefined ELSE At(row, i.n)

\* ToNumber of an index used in arithmetic (index + 1): null converts to 0
IndexNumber(i) == IF i.isNull THEN 0 ELSE i.n

InitialContext ==
    [woodType |-> Null, width |-> Null, status |-> Null,
     dimensions |-> NullArray, packIndex |-> NullIndex]

PACK == <<"P", "A", "C", "K">>

\* the template literal of the id, before the two replaceAll calls
idTemplate(prefix, width, dimension) ==
    ToString(prefix) \o ToString(width) \o ToString(dimension) \o <<"0">>

\* row.findIndex((cell) => cell === amount)
amountIndexOf(row, amount) == IndexOf(row, amount)

getItemObject(row, ctx) ==
    LET amount == findNextNonEmptyCell(row, IndexNumber(ctx.packIndex))
        amountIndex == amountIndexOf(row, amount)
        st == normalizeStatus(ctx.status)
    IN  IF ctx.dimensions.isNull \/ st.threw THEN Throw
        ELSE Return(
               [id |-> Str(ReplaceAll(ReplaceAll(
                          idTemplate(ID_PREFIXES(ctx.woodType), ctx.width,
                                     At(ctx.dimensions.cells, amountIndex)),
                          "."), "*")),
                packId |-> Number(Cell(row, ctx.packIndex)),
                amount |-> amount,
                status |-> st.value])

\* row.find((cell) => WOOD_TYPES.some((wood) => new RegExp(`(.+)wood`).test(cell)))
findWoodType(row) ==
    LET i == FindIndex({j \in 0 .. (Len(row) - 1) :
                           \E wood \in WOOD_TYPES : WoodRegExp(row[j + 1])})
    IN  IF i = -1 THEN Undefined ELSE At(row, i)

\* sheetData[i], undefined past the last row
RowAt(sheet, i) == IF i \in 0 .. (Len(sheet) - 1) THEN Array(sheet[i + 1]) ELSE NullArray

\* sheetData[i]?.[0]
FirstCellAt(sheet, i) ==
    IF RowAt(sheet, i).isNull THEN Undefined ELSE At(RowAt(sheet, i).cells, 0)

\* the header branch without its early return: the width update of the end
\* of the callback runs on the header row too
headerContextNoReturn(sheet, i, row, woodType) ==
    LET woodTypeIndex == IndexOf(row, woodType)
        dimensions == RowAt(sheet, i + 1).cells
        width == FirstCellAt(sheet, i + 2)
        next == FirstCellAt(sheet, i + 1)
    IN  [woodType |-> woodType,
         dimensions |-> Array(dimensions),
         width |-> IF Truthy(next) /\ WidthRegExp(next) THEN next
                   ELSE IF Truthy(width) THEN width ELSE Str(<<>>),
         status |-> findNextNonEmptyCell(row, woodTypeIndex),
         packIndex |-> Index(IndexOf(dimensions, Str(PACK)))]

\* the header branch: the five assignments to the context
headerContext(sheet, i, row, woodType) ==
    LET woodTypeIndex == IndexOf(row, woodType)
        dimensions == RowAt(sheet, i + 1).cells
        width == FirstCellAt(sheet, i + 2)
    IN  [woodType |-> woodType,
         dimensions |-> Array(dimensions),
         width |-> IF Truthy(width) THEN width ELSE Str(<<>>),
         status |-> findNextNonEmptyCell(row, woodTypeIndex),
         packIndex |-> Index(IndexOf(dimensions, Str(PACK)))]

\* packId && new RegExp(`[0-9]{8}\\.[0-9]`).test(packId)
isDataRow(row, ctx) ==
    LET packId == Cell(row, ctx.packIndex)
    IN  Truthy(packId) /\ PackIdRegExp(packId)

\* the width update at the end of the callback
widthUpdate(sheet, i, ctx) ==
    LET width == FirstCellAt(sheet, i + 1)
    IN  IF Truthy(width) /\ WidthRegExp(width) THEN [ctx EXCEPT !.width = width] ELSE ctx

\* the callback with the width update moved before the data-row test
processRowUpdateFirst(sheet, i, ctx, out) ==
    LET row == sheet[i + 1]
        woodType == findWoodType(row)
        updated == widthUpdate(sheet, i, ctx)
        item == getItemObject(row, updated)
    IN  IF Truthy(woodType)
        THEN [threw |-> FALSE, context |-> headerContext(sheet, i, row, woodType),
              output |-> out]
        ELSE IF isDataRow(row, updated) /\ item.threw
        THEN [threw |-> TRUE, context |-> ctx, output |-> out]
        ELSE [threw |-> FALSE, context |-> updated,
              output |-> IF isDataRow(row, updated) THEN Append(out, item.value) ELSE out]

\* one call of the inner forEach callback on row i of the sheet
processRow(sheet, i, ctx, out) ==
    LET row == sheet[i + 1]
        woodType == findWoodType(row)
        item == getItemObject(row, ctx)
    IN  IF Truthy(woodType)
        THEN [threw |-> FALSE, context |-> headerContext(sheet, i, row, woodType),
              output |-> out]
        ELSE IF isDataRow(row, ctx) /\ item.threw
        THEN [threw |-> TRUE, context |-> ctx, output |-> out]
        ELSE [threw |-> FALSE, context |-> widthUpdate(sheet, i, ctx),
              output |-> IF isDataRow(row, ctx) THEN Append(out, item.value) ELSE out]

\* sheetData.forEach: after[i] is the state after the first i rows; a throw
\* ends the scan
scanRows(sheet, ctx, out) ==
    LET after[i \in 0 .. Len(sheet)] ==
            IF i = 0 THEN [threw |-> FALSE, context |-> ctx, output |-> out]
            ELSE LET prev == after[i - 1]
                 IN  IF prev.threw THEN prev
                     ELSE processRow(sheet, i - 1, prev.context, prev.output)
    IN  after[Len(sheet)]

\* sheetsList.forEach: after[k] is the state after the first k sheets
scanSheets(workbook, ctx, out) ==
    LET after[k \in 0 .. Len(workbook)] ==
            IF k = 0 THEN [threw |-> FALSE, context |-> ctx, output |-> out]
            ELSE LET prev == after[k - 1]
                 IN  IF prev.threw THEN prev
                     ELSE scanRows(workbook[k], prev.context, prev.output)
    IN  after[Len(workbook)]

\* processWorkbook(workbook, setData): the argument it passes to setData, or a throw
processWorkbook(workbook) ==
    LET r == scanSheets(workbook, InitialContext, <<>>)
    IN  IF r.threw THEN Throw ELSE Return(r.output)

(***************************************************************************)
(* The inputs: the rows a sheet is made of, the files a user can pick and  *)
(* the values normalizeStatus is given.                                    *)
(***************************************************************************)
\* a section header of an enumerated wood type; an empty string cell lies
\* between the wood-type cell and the status cell
HeaderRedwood == <<Str(redwood), Str(<<>>), Str(<<"V">>)>>

\* a section header with nothing after the wood-type cell
HeaderWhitewood == <<Str(whitewood)>>

\* a section header the pattern accepts though it is no enumerated wood type;
\* a number cell precedes the wood-type cell
HeaderPlywood ==
    <<Num(<<"5">>), Str(<<"p", "l", "y", "w", "o", "o", "d">>), Str(<<"S", "/", "F">>)>>

\* a dimensions row with the PACK marker in column 1
DimensionsRow ==
    <<Num(<<"1", "0", "0">>), Str(PACK), Num(<<"2", "0", "0">>), Num(<<"3", "0", "0">>)>>

\* a data row: a blank cell lies between the pack id and the amount, and the
\* amount also occurs in column 0
ItemRow ==
    <<Num(<<"1", "5", "0">>),
      Str(<<"2", "0", "2", "3", "1", "0", "0", "5", ".", "2">>),
      Undefined,
      Num(<<"1", "5", "0">>)>>

\* a row that starts with a width token; its column 1 holds more digits than a
\* pack id on both sides of the dot, and no cell follows it
WidthRow ==
    <<Str(<<"7", "*", "8">>),
      Str(<<"1", "2", "0", "2", "3", "1", "0", "0", "5", ".", "2", "5">>)>>

\* a blank row of the sheet
BlankRow == <<>>

RowPool ==
    {HeaderRedwood, HeaderWhitewood, HeaderPlywood, DimensionsRow, ItemRow, WidthRow,
     BlankRow}

\* the sheets of at most n rows
Sheets(n) == UNION {[1 .. k -> RowPool] : k \in 0 .. n}

NoFile == [name |-> "", corrupt |-> FALSE, workbook |-> <<>>]

Files ==
    {[name |-> "stock.xlsx", corrupt |-> FALSE,
      workbook |-> <<<<HeaderRedwood, DimensionsRow, WidthRow, ItemRow>>>>],
     [name |-> "two-sheets.xlsx", corrupt |-> FALSE,
      workbook |-> <<<<HeaderPlywood, DimensionsRow>>, <<ItemRow, ItemRow>>>>],
     [name |-> "no-status.xlsx", corrupt |-> FALSE,
      workbook |-> <<<<HeaderWhitewood, DimensionsRow, ItemRow>>>>],
     [name |-> "not-excel.xls", corrupt |-> TRUE, workbook |-> <<>>]}

StatusChars == {"S", "/", "F", "I", "V", "x"}

StatusInputs ==
    {Str(chars) : chars \in UNION {[1 .. k -> StatusChars] : k \in 0 .. MaxStatusLen}}
        \cup {Null, Num(<<"5">>)}

(***************************************************************************)
(* Init: a mounted component (data = [], fileName = "") and a call of      *)
(* processWorkbook that has created its context and output.                *)
(***************************************************************************)
Init ==
    /\ sheetNo = 0
    /\ sheetData = <<>>
    /\ index = 0
    /\ rowsRead = 0
    /\ context = InitialContext
    /\ output = <<>>
    /\ carried = InitialContext
    /\ pc = "scan"
    /\ data = <<>>
    /\ fileName = ""
    /\ uploads = <<>>
    /\ status = Null
    /\ normalized = <<>>

(***************************************************************************)
(* processWorkbook, one step per iteration of its two forEach loops.       *)
(***************************************************************************)
\* sheetsList.forEach: the next sheet is converted by sheet_to_json
BeginSheet ==
    /\ pc = "scan"
    /\ index = Len(sheetData)
    /\ sheetNo < MaxSheets
    /\ \E sheet \in Sheets(MaxRows - rowsRead) :
          /\ sheetData' = sheet
          /\ rowsRead' = rowsRead + Len(sheet)
    /\ sheetNo' = sheetNo + 1
    /\ index' = 0
    /\ carried' = context
    /\ UNCHANGED <<context, output, pc, data, fileName, uploads, status, normalized>>

\* the callback on a row with a wood-type cell
HeaderRow ==
    /\ pc = "scan"
    /\ index < Len(sheetData)
    /\ Truthy(findWoodType(sheetData[index + 1]))
    /\ LET r == processRow(sheetData, index, context, output)
       IN  /\ context' = r.context
           /\ output' = r.output
    /\ index' = index + 1
    /\ UNCHANGED <<sheetNo, sheetData, rowsRead, carried, pc, data, fileName, uploads,
                   status, normalized>>

\* the callback on any other row; a throw leaves processWorkbook
OtherRow ==
    /\ pc = "scan"
    /\ index < Len(sheetData)
    /\ ~Truthy(findWoodType(sheetData[index + 1]))
    /\ LET r == processRow(sheetData, index, context, output)
       IN  /\ context' = r.context
           /\ output' = r.output
           /\ pc' = IF r.threw THEN "failed" ELSE "scan"
           /\ index' = IF r.threw THEN index ELSE index + 1
    /\ UNCHANGED <<sheetNo, sheetData, rowsRead, carried, data, fileName, uploads,
                   status, normalized>>

\* setData(output) after the last sheet
Finish ==
    /\ pc = "scan"
    /\ index = Len(sheetData)
    /\ pc' = "done"
    /\ data' = output
    /\ UNCHANGED <<sheetNo, sheetData, index, rowsRead, context, output, carried,
                   fileName, uploads, status, normalized>>

Next == BeginSheet \/ HeaderRow \/ OtherRow \/ Finish

Spec == Init /\ [][Next]_vars

(***************************************************************************)
(* handleFileUpload.  The handler runs to its await; the FileReader then   *)
(* fires onload or onerror, in any order among the attempts under way, and *)
(* the rest of the handler runs to completion.                             *)
(***************************************************************************)
\* the handler with setFileName called before processWorkbook
afterReadNameFirst(file, d, fn) ==
    LET r == IF file.corrupt THEN Throw ELSE processWorkbook(file.workbook)
    IN  IF file.corrupt THEN [state |-> "failed", data |-> d, fileName |-> fn]
        ELSE IF r.threw THEN [state |-> "failed", data |-> d, fileName |-> file.name]
        ELSE [state |-> "done", data |-> r.value, fileName |-> file.name]

\* the handler after the await resolved: XLSX.read, processWorkbook (which
\* calls setData last), setFileName; the catch block changes no state
afterRead(file, d, fn) ==
    LET r == IF file.corrupt THEN Throw ELSE processWorkbook(file.workbook)
    IN  IF r.threw THEN [state |-> "failed", data |-> d, fileName |-> fn]
        ELSE [state |-> "done", data |-> r.value, fileName |-> file.name]

\* event.target.files[0] is undefined: alert and return
UploadNothing ==
    /\ Len(uploads) < MaxUploads
    /\ uploads' = Append(uploads, [file |-> NoFile, state |-> "nofile"])
    /\ UNCHANGED <<scanVars, data, fileName, status, normalized>>

\* a file was picked: the handler starts the FileReader and awaits
UploadFile ==
    /\ Len(uploads) < MaxUploads
    /\ \E file \in Files :
          uploads' = Append(uploads, [file |-> file, state |-> "reading"])
    /\ UNCHANGED <<scanVars, data, fileName, status, normalized>>

\* reader.onerror: the promise rejects, the catch block alerts
ReadError ==
    /\ \E i \in 1 .. Len(uploads) :
          /\ uploads[i].state = "reading"
          /\ uploads' = [uploads EXCEPT ![i].state = "failed"]
    /\ UNCHANGED <<scanVars, data, fileName, status, normalized>>

\* reader.onload: the promise resolves and the handler runs to its end
ReadLoaded ==
    /\ \E i \in 1 .. Len(uploads) :
          /\ uploads[i].state = "reading"
          /\ LET r == afterRead(uploads[i].file, data, fileName)
             IN  /\ uploads' = [uploads EXCEPT ![i].state = r.state]
                 /\ data' = r.data
                 /\ fileName' = r.fileName
    /\ UNCHANGED <<scanVars, status, normalized>>

NextUpload == UploadNothing \/ UploadFile \/ ReadError \/ ReadLoaded

SpecUpload == Init /\ [][NextUpload]_vars

(***************************************************************************)
(* normalizeStatus applied to one value.                                   *)
(***************************************************************************)
InitNormalize ==
    /\ sheetNo = 0
    /\ sheetData = <<>>
    /\ index = 0
    /\ rowsRead = 0
    /\ context = InitialContext
    /\ output = <<>>
    /\ carried = InitialContext
    /\ pc = "scan"
    /\ data = <<>>
    /\ fileName = ""
    /\ uploads = <<>>
    /\ status \in StatusInputs
    /\ normalized = <<>>

Normalize ==
    /\ normalized = <<>>
    /\ normalized' = <<normalizeStatus(status)>>
    /\ UNCHANGED <<scanVars, data, fileName, uploads, status>>

NextNormalize == Normalize

SpecNormalize == InitNormalize /\ [][NextNormalize]_vars

(***************************************************************************)
(* Vocabulary of the properties below.                                     *)
(***************************************************************************)
\* the callback is about to run on a row
AtRow == pc = "scan" /\ index < Len(sheetData)

CurrentRow == sheetData[index + 1]

\* some cell of the row matches the wood-type pattern
HasWoodCell(row) == \E k \in 1 .. Len(row) : WoodRegExp(row[k])

\* the step pushed a record
Emitted == Len(output') = Len(output) + 1

LastOf(seq) == seq[Len(seq)]

\* the whole string is 8 digits, a dot and one digit
ExactPackId(str) ==
    /\ Len(str) = 10
    /\ \A k \in 1 .. 8 : IsDigit(str[k])
    /\ str[9] = "."
    /\ IsDigit(str[10])

\* a string with every "." and "*" removed
Strip(str) == SelectSeq(str, LAMBDA c : c \notin {".", "*"})

\* the first 0-based index of the row whose cell equals v, -1 if none
FirstIndexOf(row, v) ==
    IF \E k \in 1 .. Len(row) : row[k] = v
    THEN Min({k \in 1 .. Len(row) : row[k] = v}) - 1
    ELSE -1

\* the first truthy cell of the row at a 0-based index greater than p, else null
FirstTruthyAfter(row, p) ==
    LET later == {k \in 1 .. Len(row) : k - 1 > p /\ Truthy(row[k])}
    IN  IF later = {} THEN Null ELSE row[Min(later)]

\* C1: a non-header row appends exactly one record if and only if its cell at
\* context.packIndex is present and its string form is exactly 8 digits, a
\* dot and one digit; every other row appends nothing; records are appended
\* at the end of the output, and the output is what setData receives.
C1_DataRowIffExactPackId ==
    [][/\ (AtRow /\ ~HasWoodCell(CurrentRow)) =>
            LET cell == Cell(CurrentRow, context.packIndex)
            IN  IF cell # Undefined /\ ExactPackId(ToString(cell))
                THEN Emitted /\ SubSeq(output', 1, Len(output)) = output
                ELSE output' = output
       /\ (AtRow /\ HasWoodCell(CurrentRow)) => output' = output
       /\ (pc = "scan" /\ pc' = "done") => data' = output
      ]_vars

\* C2: the id of every emitted record is prefix + width + dimensions[amountIndex]
\* with "." and "*" removed, amountIndex being the first index of the row whose
\* cell equals the amount; a missing lookup contributes the empty string.
C2_IdIsPrefixWidthDimension ==
    [][Emitted =>
          LET rec == LastOf(output')
              amountIndex == FirstIndexOf(CurrentRow, rec.amount)
              label == At(context.dimensions.cells, amountIndex)
              fragment == IF label = Undefined THEN <<>> ELSE ToString(label)
          IN  rec.id = Str(Strip(ToString(ID_PREFIXES(context.woodType))
                                 \o ToString(context.width) \o fragment))
      ]_vars

\* C3: processing a row with a wood-type cell sets woodType to the matched cell,
\* dimensions to the next row (empty if none), width to the first cell of the
\* row two below ("" if blank), status to the first non-blank cell after the
\* matched cell (null if none) and packIndex to the index of "PACK" in
\* dimensions (-1 if none); it emits nothing and runs no width update.
C3_HeaderReplacesContext ==
    [][(AtRow /\ HasWoodCell(CurrentRow)) =>
          LET row == CurrentRow
              k == Min({j \in 1 .. Len(row) : WoodRegExp(row[j])})
              next == IF index + 1 < Len(sheetData) THEN sheetData[index + 2] ELSE <<>>
              below == IF index + 2 < Len(sheetData)
                       THEN At(sheetData[index + 3], 0) ELSE Undefined
          IN  /\ context'.woodType = row[k]
              /\ context'.dimensions = Array(next)
              /\ context'.width = IF Truthy(below) THEN below ELSE Str(<<>>)
              /\ context'.status = FirstTruthyAfter(row, k - 1)
              /\ context'.packIndex = Index(FirstIndexOf(next, Str(PACK)))
              /\ output' = output
              /\ index' = index + 1
              /\ pc' = "scan"
      ]_vars

\* C3 witness: a header was just processed and every field took a value from
\* the sheet: the status behind a blank cell, PACK found, a width two rows below.
C3_Witness ==
    /\ pc = "scan"
    /\ index = 1
    /\ sheetData = <<HeaderRedwood, DimensionsRow, WidthRow>>
    /\ context.woodType = Str(redwood)
    /\ context.status = Str(<<"V">>)
    /\ context.dimensions = Array(DimensionsRow)
    /\ context.packIndex = Index(1)
    /\ context.width = Str(<<"7", "*", "8">>)
    /\ output = <<>>

\* C4: every row the scan recognizes as a data row emits its record and the
\* scan goes on: normalizeStatus raises no error whatever status the context holds.
C4_NoFailureOnDataRow ==
    [][(AtRow /\ ~HasWoodCell(CurrentRow) /\ isDataRow(CurrentRow, context)) =>
          (Emitted /\ pc' = "scan")
      ]_vars

\* the substring test of the status rules, position by position
HasSF(str) ==
    \E i \in 1 .. (Len(str) - 2) : str[i] = "S" /\ str[i + 1] = "/" /\ str[i + 2] = "F"

HasIV(str) == \E i \in 1 .. (Len(str) - 1) : str[i] = "I" /\ str[i + 1] = "V"

\* C5: for a raw status string, normalizeStatus returns "SF" if it contains
\* "S/F", otherwise "IV" if it contains "IV", otherwise "V" if it is exactly
\* "V", otherwise the string unchanged; the first rule that matches wins.
C5_NormalizeFirstMatchWins ==
    (normalized # <<>> /\ status.t = "string") =>
        normalized[1] =
            Return(IF HasSF(status.s) THEN Str(<<"S", "F">>)
                   ELSE IF HasIV(status.s) THEN Str(<<"I", "V">>)
                   ELSE IF status.s = <<"V">> THEN Str(<<"V">>)
                   ELSE status)

\* C5 witness: a string holding both "S/F" and "IV" was normalized to "SF".
C5_Witness ==
    /\ status = Str(<<"I", "V", "S", "/", "F">>)
    /\ normalized = <<Return(Str(<<"S", "F">>))>>

\* C6: the amount of an emitted record is the first truthy cell of its row at
\* an index strictly greater than packIndex, null if there is none; the status
\* a header captures with the same helper is null or a truthy cell strictly
\* after the wood-type cell.
C6_AmountIsNextTruthyCell ==
    [][/\ Emitted =>
            /\ ~context.packIndex.isNull
            /\ LastOf(output').amount = FirstTruthyAfter(CurrentRow, context.packIndex.n)
       /\ (AtRow /\ HasWoodCell(CurrentRow)) =>
            LET row == CurrentRow
                k == Min({j \in 1 .. Len(row) : WoodRegExp(row[j])})
            IN  \/ /\ context'.status = Null
                   /\ \A j \in (k + 1) .. Len(row) : ~Truthy(row[j])
                \/ /\ Truthy(context'.status)
                   /\ \E j \in (k + 1) .. Len(row) : row[j] = context'.status
      ]_vars

\* C6 witness: the item row was emitted with the amount found behind the
\* blank cell that follows its pack id.
C6_Witness ==
    /\ pc = "scan"
    /\ sheetData = <<HeaderRedwood, DimensionsRow, ItemRow>>
    /\ index = 3
    /\ context.packIndex = Index(1)
    /\ Len(output) = 1
    /\ output[1].amount = Num(<<"1", "5", "0">>)

\* C7: the context is not reset when a sheet begins, and a row of a later
\* sheet that has no header row so far, whose cell at the carried packIndex
\* matches the pack-id pattern, emits the record built from the context as it
\* was at the end of the previous sheet.
C7_CarriedContextBuildsRecord ==
    [][/\ (pc = "scan" /\ sheetNo' = sheetNo + 1) => context' = context
       /\ ( /\ AtRow
            /\ sheetNo >= 2
            /\ \A j \in 1 .. (index + 1) : ~HasWoodCell(sheetData[j])
            /\ Truthy(Cell(CurrentRow, carried.packIndex))
            /\ PackIdRegExp(Cell(CurrentRow, carried.packIndex)) ) =>
            /\ Emitted
            /\ LastOf(output') = getItemObject(CurrentRow, carried).value
      ]_vars

\* the uploads that ran to the end of the handler
DoneUploads(ups) == {i \in 1 .. Len(ups) : ups[i].state = "done"}

\* C8: data and fileName are both initial until an upload is done, and then
\* they are the name and the records of one and the same done upload, whose file
\* was decoded and processed without an exception; a step in which no upload
\* becomes done (no file selected, a failed read, an exception) changes
\* neither data nor fileName.
C8_NameAndDataFromOneUpload ==
    /\ [](/\ \A i \in DoneUploads(uploads) :
                /\ ~uploads[i].file.corrupt
                /\ ~processWorkbook(uploads[i].file.workbook).threw
          /\ IF DoneUploads(uploads) = {}
             THEN fileName = "" /\ data = <<>>
             ELSE \E i \in DoneUploads(uploads) :
                     /\ fileName = uploads[i].file.name
                     /\ data = processWorkbook(uploads[i].file.workbook).value)
    /\ [][DoneUploads(uploads') = DoneUploads(uploads) =>
            (data' = data /\ fileName' = fileName)]_vars

\* C8 witness: after a successful upload, an upload whose processing throws and
\* one with no file selected have ended, and the first upload's name and
\* records are still shown.
C8_Witness ==
    /\ Len(uploads) = 3
    /\ uploads[1].state = "done"
    /\ uploads[1].file.name = "stock.xlsx"
    /\ uploads[2].state = "failed"
    /\ uploads[2].file.name = "no-status.xlsx"
    /\ uploads[3].state = "nofile"
    /\ fileName = "stock.xlsx"
    /\ Len(data) = 2

C10_OnlyWidthChangesAfterEmit ==
    [][(AtRow /\ ~HasWoodCell(CurrentRow) /\ pc' = "scan") =>
          LET first == IF index + 1 < Len(sheetData)
                       THEN At(sheetData[index + 2], 0) ELSE Undefined
              update == first # Undefined /\ WidthRegExp(first)
          IN  /\ context' = [context EXCEPT !.width = IF update THEN first ELSE @]
              /\ Emitted =>
                    \E label \in {Undefined} \cup
                                 {context.dimensions.cells[j] :
                                     j \in 1 .. Len(context.dimensions.cells)} :
                        LastOf(output').id =
                            Str(Strip(idTemplate(ID_PREFIXES(context.woodType),
                                                 context.width, label)))
      ]_vars

\* C10 witness: the item row was emitted with the width 150 captured by the
\* header, and its width update then took 7*8 from the row below.
C10_Witness ==
    /\ pc = "scan"
    /\ sheetData = <<HeaderRedwood, DimensionsRow, ItemRow, WidthRow>>
    /\ index = 3
    /\ context.width = Str(<<"7", "*", "8">>)
    /\ Len(output) = 1
    /\ output[1].id = Str(<<"R", "1", "1", "5", "0", "1", "0", "0", "0">>)

=============================================================================
